---- MODULE Spec2Model ----
(***************************************************************************)
(* Model of solve() in optimize.py: the tiered assignment of teaching      *)
(* assistants to courses.  For each tier (PhDs, MScs, others) solve()      *)
(* slices the tier's availabilities and preference costs out of the        *)
(* configuration, builds a bipartite flow network, asks the min-cost-flow  *)
(* solver for a maximum flow of minimum cost, and walks the solved arcs to *)
(* print the assignments and to decrement the shared course slots.         *)
(*                                                                         *)
(* Python lists and numpy arrays are modelled as sequences; At(s, i) is    *)
(* the 0-based lookup s[i].  The solver is an external library: its result *)
(* is a nondeterministic choice among the flows and statuses its contract  *)
(* allows.                                                                 *)
(***************************************************************************)
EXTENDS Integers, Sequences, FiniteSets, TLC

\* ---------------------------------------------------------------- bounds
MaxClasses == 3
MaxGroup == 2
MaxTAs == 3
MaxPairs == 6
MaxSpots == 2
MaxPattern == 2

\* ------------------------------------------------------ program constants
\* costs = [0, 25, 50, 100, np.iinfo(np.int32).max /2 -1]; the last entry is
\* 1073741822.5 in the source, kept here as its integer part (it is only ever
\* added to another cost and compared with the threshold).
CostMost == 0
CostWanted == 25
CostSomewhat == 50
CostWilling == 100
CostUnwilling == 1073741822
\* config['avail'] = np.int_(np.random.randint(low=1, high=3, size = totTAs))
AvailLow == 1
AvailHigh == 3
\* if totalCost < 1000
Threshold == 1000
\* numTAs = [ numPhDs, numMSCs, numOther ]
NumTiers == 3

VARIABLES
    config,     \* the configuration as loaded (config.spots: the original slots)
    spots,      \* spots: remaining slots per course, shared by all tiers
    iStart,     \* iStart: offset of the tier's first TA in the flat lists
    tier,       \* position of the for loop over numTAs (1..NumTiers)
    pc,         \* "build" | "solve" | "done" | "IndexError"
    avail,      \* avail: the tier's slice of availabilities, decremented
    arcs,       \* smcf: the arcs in the order they were added
    supply,     \* smcf: node supplies, node n at position n + 1
    flow,       \* smcf: flow of each arc after the solve
    status,     \* status returned by the solver, one entry per finished tier
    totals,     \* printed 'Total cost = ' lines
    assigned,   \* printed 'TA %d assigned to course %d.  Cost = %d' lines
    capacity,   \* printed 'TA %d has %d more capacity' lines
    remaining   \* printed spots, one snapshot per finished tier

vars == << config, spots, iStart, tier, pc, avail, arcs, supply, flow,
           status, totals, assigned, capacity, remaining >>

\* ------------------------------------------------------- lists and slices
Min(a, b) == IF a < b THEN a ELSE b

\* s[i] with a 0-based index is defined for 0 <= i < len(s)
InRange(s, i) == i >= 0 /\ i < Len(s)

At(s, i) == s[i + 1]

\* s[a:b] for 0 <= a <= b: truncated at the end of the list, never an error
Slice(s, a, b) == SubSeq(s, a + 1, Min(b, Len(s)))

RECURSIVE SumTo(_, _)
SumTo(s, n) == IF n = 0 THEN 0 ELSE s[n] + SumTo(s, n - 1)

Sum(s) == SumTo(s, Len(s))

\* the list of length n that repeats the pattern pat
Repeat(pat, n) == [i \in 1..n |-> pat[((i - 1) % Len(pat)) + 1]]

\* ---------------------------------------------------------- configuration
\* numTAs = [ config['numPhDs'], config['numMSCs'], config['numOther'] ]
NumTAs(cfg) == << cfg.numPhDs, cfg.numMSCs, cfg.numOther >>

TotTAs(cfg) == cfg.numPhDs + cfg.numMSCs + cfg.numOther

\* ------------------------------------------------------- network builder
\* avail = config['avail'][iStart:(iStart+nGroup)]
AvailSlice(cfg, start, nGroup) == Slice(cfg.avail, start, start + nGroup)

\* prefs[ iStart*numClasses:(iStart+nGroup)*numClasses ]
PrefSlice(prefs, start, nGroup, numClasses) ==
    Slice(prefs, start * numClasses, (start + nGroup) * numClasses)

\* the loop nest: for iStudent in range(nGroup): for iClass in range(numClasses)
Pairs(nGroup, numClasses) ==
    [i \in 1..(nGroup * numClasses) |->
        [iStudent |-> (i - 1) \div numClasses, iClass |-> (i - 1) % numClasses]]

\* the index of both preference lookups: iStudent*nGroup+iClass
PrefIndex(iStudent, iClass, nGroup) == iStudent * nGroup + iClass

\* totalCost = studentPrefs[...] + coursePrefs[...]
TotalCost(studentPrefs, coursePrefs, iStudent, iClass, nGroup) ==
    At(studentPrefs, PrefIndex(iStudent, iClass, nGroup))
        + At(coursePrefs, PrefIndex(iStudent, iClass, nGroup))

\* faulty variant: the arc is given capacity 2
ArcOfTwoUnits(iStudent, iClass, nGroup, totalCost) ==
    [tail |-> iStudent, head |-> iClass + nGroup,
     capacity |-> 2, unit_cost |-> totalCost]

\* smcf.add_arc_with_capacity_and_unit_cost( iStudent, iClass+nGroup, 1, totalCost )
Arc(iStudent, iClass, nGroup, totalCost) ==
    [tail |-> iStudent, head |-> iClass + nGroup,
     capacity |-> 1, unit_cost |-> totalCost]

\* a list lookup of the build raises IndexError
LookupFails(nGroup, numClasses, studentPrefs, coursePrefs, av, sp) ==
    \/ \E iStudent \in 0..(nGroup - 1), iClass \in 0..(numClasses - 1) :
          \/ ~InRange(studentPrefs, PrefIndex(iStudent, iClass, nGroup))
          \/ ~InRange(coursePrefs, PrefIndex(iStudent, iClass, nGroup))
    \/ \E iStudent \in 0..(nGroup - 1) : ~InRange(av, iStudent)
    \/ \E iClass \in 0..(numClasses - 1) : ~InRange(sp, iClass)

\* the arcs added by the loop nest, in order: only pairs with totalCost < 1000
BuiltArcs(nGroup, numClasses, studentPrefs, coursePrefs) ==
    LET pairs == Pairs(nGroup, numClasses)
        all == [i \in 1..Len(pairs) |->
                   Arc(pairs[i].iStudent, pairs[i].iClass, nGroup,
                       TotalCost(studentPrefs, coursePrefs,
                                 pairs[i].iStudent, pairs[i].iClass, nGroup))]
        Feasible(a) == a.unit_cost < Threshold
    IN  SelectSeq(all, Feasible)

\* faulty variant: the TA's supply is one more than its availability
TASupplyOffByOne(av, iStudent) == At(av, iStudent) + 1

\* smcf.set_node_supply(iStudent, avail[iStudent])
TASupply(av, iStudent) == At(av, iStudent)

\* faulty variant: the demand is the original slot count of the configuration
CourseSupplyStale(sp, iClass) == -1 * At(config.spots, iClass)

\* smcf.set_node_supply(iClass+nGroup, -1*spots[iClass])
CourseSupply(sp, iClass) == -1 * At(sp, iClass)

\* the supplies of nodes 0 .. nGroup+numClasses-1
BuiltSupply(nGroup, numClasses, av, sp) ==
    [n \in 1..(nGroup + numClasses) |->
        IF n - 1 < nGroup THEN TASupply(av, n - 1)
                          ELSE CourseSupply(sp, n - 1 - nGroup)]

\* ------------------------------------------------------------- the solver
\* smcf.solve_max_flow_with_min_cost(): a flow that respects the arc
\* capacities, sends out of a supply node at most its supply and into a
\* demand node at most its demand, is of maximum value, and is of minimum
\* cost among the flows of maximum value.
OutFlow(a, f, n) == Sum([i \in 1..Len(a) |-> IF a[i].tail = n THEN f[i] ELSE 0])

InFlow(a, f, n) == Sum([i \in 1..Len(a) |-> IF a[i].head = n THEN f[i] ELSE 0])

NetFlow(a, f, n) == OutFlow(a, f, n) - InFlow(a, f, n)

MaxCapacity(a) ==
    IF a = << >> THEN 0
    ELSE CHOOSE m \in {a[i].capacity : i \in 1..Len(a)} :
             \A i \in 1..Len(a) : a[i].capacity <= m

FeasibleFlows(a, s) ==
    {f \in [1..Len(a) -> 0..MaxCapacity(a)] :
        /\ \A i \in 1..Len(a) : f[i] <= a[i].capacity
        /\ \A n \in 1..Len(s) :
              LET net == NetFlow(a, f, n - 1)
              IN  IF s[n] > 0 THEN net >= 0 /\ net <= s[n]
                  ELSE IF s[n] < 0 THEN net <= 0 /\ net >= s[n]
                  ELSE net = 0}

FlowValue(a, s, f) ==
    Sum([n \in 1..Len(s) |-> IF s[n] > 0 THEN NetFlow(a, f, n - 1) ELSE 0])

\* smcf.optimal_cost()
FlowCost(a, f) == Sum([i \in 1..Len(a) |-> f[i] * a[i].unit_cost])

Max(S) == CHOOSE m \in S : \A x \in S : x <= m

\* the flows of maximum value among ff
MaxFlows(a, s, ff) ==
    LET v == Max({FlowValue(a, s, f) : f \in ff})
    IN  {f \in ff : FlowValue(a, s, f) = v}

\* the flows of minimum cost among mf
MinCost(a, mf) ==
    LET c == -1 * Max({-1 * FlowCost(a, f) : f \in mf})
    IN  {f \in mf : FlowCost(a, f) = c}

MinCostMaxFlows(a, s) == MinCost(a, MaxFlows(a, s, FeasibleFlows(a, s)))

\* the statuses other than OPTIMAL the call can return
NotOptimal == {"INFEASIBLE"}

\* ------------------------------------------------------------- extraction
\* faulty variant: the assignment is printed but the slot is not taken
ExtractArcKeepsSlots(arc, nGroup, t, st) ==
    [spots |-> st.spots,
     avail |-> [st.avail EXCEPT ![arc.tail + 1] = @ - 1],
     lines |-> Append(st.lines,
                      [tier |-> t, ta |-> arc.tail, course |-> arc.head - nGroup,
                       cost |-> arc.unit_cost])]

\* the body of 'if smcf.flow(arc) > 0': spots[iClass] -= 1,
\* avail[smcf.tail(arc)] -= 1, and the printed assignment
ExtractArc(arc, nGroup, t, st) ==
    LET iClass == arc.head - nGroup
    IN  [spots |-> [st.spots EXCEPT ![iClass + 1] = @ - 1],
         avail |-> [st.avail EXCEPT ![arc.tail + 1] = @ - 1],
         lines |-> Append(st.lines,
                          [tier |-> t, ta |-> arc.tail, course |-> iClass,
                           cost |-> arc.unit_cost])]

\* faulty variant: the walk over the arcs stops before the last arc
RECURSIVE ExtractAllButLast(_, _, _, _, _, _)
ExtractAllButLast(a, f, i, nGroup, t, st) ==
    IF i >= Len(a) THEN st
    ELSE ExtractAllButLast(a, f, i + 1, nGroup, t,
                           IF f[i] > 0 THEN ExtractArc(a[i], nGroup, t, st) ELSE st)

\* for arc in range(smcf.num_arcs()), from arc i on
RECURSIVE Extract(_, _, _, _, _, _)
Extract(a, f, i, nGroup, t, st) ==
    IF i > Len(a) THEN st
    ELSE Extract(a, f, i + 1, nGroup, t,
                 IF f[i] > 0 THEN ExtractArc(a[i], nGroup, t, st) ELSE st)

\* the amount printed for a TA with capacity left: smcf.supply( iStudent )
ReportedAmount(s, av, iStudent) == At(s, iStudent)

\* for iStudent in range(nGroup): if avail[iStudent] > 0: print(...), from i on
RECURSIVE Report(_, _, _, _, _)
Report(s, av, i, nGroup, t) ==
    IF i >= nGroup THEN << >>
    ELSE (IF At(av, i) > 0
          THEN << [tier |-> t, ta |-> i, amount |-> ReportedAmount(s, av, i)] >>
          ELSE << >>) \o Report(s, av, i + 1, nGroup, t)

\* ---------------------------------------------------------------- actions
\* The configurations: numClasses courses, three tiers of at most MaxGroup
\* TAs, MaxTAs TAs in all, at most MaxPairs (TA, course) pairs in a tier.
\* The slots repeat the pattern s and the availabilities the pattern a; the
\* two preference lists repeat a pattern r of MaxPattern (student cost,
\* course cost) entries, and are cut short by cut entries.
PrefEntries ==
    { << CostMost, CostWanted >>, << CostWilling, CostWanted >>,
      << CostUnwilling, CostWanted >>, << CostWilling, CostUnwilling >> }

Shapes ==
    {x \in (1..MaxClasses) \X [1..NumTiers -> 0..MaxGroup] :
        /\ x[2][1] + x[2][2] + x[2][3] <= MaxTAs
        /\ \A t \in 1..NumTiers : x[2][t] * x[1] <= MaxPairs}

CutShort(list, cut) == SubSeq(list, 1, Len(list) - Min(cut, Len(list)))

Config(nc, g, s, a, r, cut) ==
    [numPhDs |-> g[1], numMSCs |-> g[2], numOther |-> g[3],
     numClasses |-> nc,
     spots |-> Repeat(s, nc),
     avail |-> Repeat(a, g[1] + g[2] + g[3]),
     studentPrefs |->
        CutShort(Repeat([i \in 1..Len(r) |-> r[i][1]], (g[1] + g[2] + g[3]) * nc), cut),
     coursePrefs |->
        CutShort(Repeat([i \in 1..Len(r) |-> r[i][2]], (g[1] + g[2] + g[3]) * nc), cut)]

\* the data model: slots >= 0, availability >= 1, lists of full size; every
\* course has the same number of slots and every TA the same availability
ValidConfigs ==
    {Config(x[1], x[2], << s >>, << a >>, r, 0) :
        x \in Shapes, s \in 0..MaxSpots, a \in AvailLow..(AvailHigh - 1),
        r \in [1..MaxPattern -> PrefEntries]}

\* what a configuration file can hold beyond the data model: negative slots
\* or availabilities, preference lists one entry short
AnyConfigs ==
    {Config(x[1], x[2], s, a, r, cut) :
        x \in Shapes,
        s \in [1..MaxPattern -> {-1, MaxSpots}],
        a \in [1..MaxPattern -> {-1, AvailLow}],
        r \in [1..MaxPattern -> {<< CostMost, CostWanted >>, << CostUnwilling, CostWanted >>}],
        cut \in 0..1}

InitWith(cfg) ==
    /\ config = cfg
    /\ spots = cfg.spots
    /\ iStart = 0
    /\ tier = 1
    /\ pc = "build"
    /\ avail = << >>
    /\ arcs = << >>
    /\ supply = << >>
    /\ flow = << >>
    /\ status = << >>
    /\ totals = << >>
    /\ assigned = << >>
    /\ capacity = << >>
    /\ remaining = << >>

Init == \E cfg \in ValidConfigs : InitWith(cfg)

InitAny == \E cfg \in AnyConfigs : InitWith(cfg)

\* lines 89-103 when no lookup fails
BuildNetwork ==
    /\ pc = "build"
    /\ LET nGroup == NumTAs(config)[tier]
           numClasses == config.numClasses
           av == AvailSlice(config, iStart, nGroup)
           studentPrefs == PrefSlice(config.studentPrefs, iStart, nGroup, numClasses)
           coursePrefs == PrefSlice(config.coursePrefs, iStart, nGroup, numClasses)
       IN  /\ ~LookupFails(nGroup, numClasses, studentPrefs, coursePrefs, av, spots)
           /\ avail' = av
           /\ arcs' = BuiltArcs(nGroup, numClasses, studentPrefs, coursePrefs)
           /\ supply' = BuiltSupply(nGroup, numClasses, av, spots)
    /\ flow' = << >>
    /\ pc' = "solve"
    /\ UNCHANGED << config, spots, iStart, tier, status, totals, assigned,
                    capacity, remaining >>

\* lines 89-103 when a lookup raises IndexError: solve() ends there
BuildIndexError ==
    /\ pc = "build"
    /\ LET nGroup == NumTAs(config)[tier]
           numClasses == config.numClasses
           av == AvailSlice(config, iStart, nGroup)
           studentPrefs == PrefSlice(config.studentPrefs, iStart, nGroup, numClasses)
           coursePrefs == PrefSlice(config.coursePrefs, iStart, nGroup, numClasses)
       IN  /\ LookupFails(nGroup, numClasses, studentPrefs, coursePrefs, av, spots)
           /\ avail' = av
    /\ arcs' = << >>
    /\ supply' = << >>
    /\ flow' = << >>
    /\ pc' = "IndexError"
    /\ UNCHANGED << config, spots, iStart, tier, status, totals, assigned,
                    capacity, remaining >>

\* the end of the loop body: iStart += nGroup, and the next tier if any
NextIStart(start, nGroup) == start + nGroup

Advance ==
    /\ iStart' = NextIStart(iStart, NumTAs(config)[tier])
    /\ IF tier < NumTiers
       THEN tier' = tier + 1 /\ pc' = "build"
       ELSE tier' = tier /\ pc' = "done"

\* lines 105-126 and 133-135: the solver returns OPTIMAL
SolveOptimal ==
    /\ pc = "solve"
    /\ \E f \in MinCostMaxFlows(arcs, supply) :
          LET nGroup == NumTAs(config)[tier]
              ex == Extract(arcs, f, 1, nGroup, tier,
                            [spots |-> spots, avail |-> avail, lines |-> << >>])
          IN  /\ flow' = f
              /\ status' = Append(status, "OPTIMAL")
              /\ totals' = Append(totals, FlowCost(arcs, f))
              /\ spots' = ex.spots
              /\ avail' = ex.avail
              /\ assigned' = assigned \o ex.lines
              /\ capacity' = capacity \o Report(supply, ex.avail, 0, nGroup, tier)
              /\ remaining' = Append(remaining, ex.spots)
    /\ Advance
    /\ UNCHANGED << config, arcs, supply >>

\* faulty variant: solve() returns at the first status that is not OPTIMAL
SolveNotOptimalReturns ==
    /\ pc = "solve"
    /\ \E st \in NotOptimal : status' = Append(status, st)
    /\ remaining' = Append(remaining, spots)
    /\ pc' = "done"
    /\ UNCHANGED << config, spots, iStart, tier, avail, arcs, supply, flow,
                    totals, assigned, capacity >>

\* lines 105, 127-129 and 133-135: the solver returns another status
SolveNotOptimal ==
    /\ pc = "solve"
    /\ \E st \in NotOptimal : status' = Append(status, st)
    /\ remaining' = Append(remaining, spots)
    /\ Advance
    /\ UNCHANGED << config, spots, avail, arcs, supply, flow, totals, assigned,
                    capacity >>

Next ==
    \/ BuildNetwork
    \/ BuildIndexError
    \/ SolveOptimal
    \/ SolveNotOptimal

Spec == Init /\ [][Next]_vars

SpecAny == InitAny /\ [][Next]_vars

\* ------------------------------------------------- terms used by the claims
\* the offset of tier t's first TA: the sizes of the tiers before it
TierStart(t) == SumTo(NumTAs(config), t - 1)

\* the numbers of tiers finished, and the tier of the network held in smcf
Finished == Len(status)

NetTier == IF pc = "solve" THEN Finished + 1 ELSE Finished

Courses == 0..(config.numClasses - 1)

\* the printed assignments of tier t, of TA ta in tier t, of course c
LinesOfTier(t) == {i \in 1..Len(assigned) : assigned[i].tier = t}

LinesOfTA(t, ta) == {i \in LinesOfTier(t) : assigned[i].ta = ta}

LinesOfCourse(c) == {i \in 1..Len(assigned) : assigned[i].course = c}

LinesBefore(t, c) == {i \in LinesOfCourse(c) : assigned[i].tier < t}

\* the slots printed before tier j ran
SlotsBefore(j) == IF j = 1 THEN config.spots ELSE remaining[j - 1]

\* format is [[0..numCourses][0..numCourses]...numStudents]: the entry of
\* TA ta of tier t and course c in the flat lists of the configuration
PairIndex(t, ta, c) == (TierStart(t) + ta) * config.numClasses + c

PairCost(t, ta, c) ==
    At(config.studentPrefs, PairIndex(t, ta, c))
        + At(config.coursePrefs, PairIndex(t, ta, c))

\* the declared availability of TA ta of tier t
Declared(t, ta) == At(config.avail, TierStart(t) + ta)

TotalSupply(s) == Sum([n \in 1..Len(s) |-> IF s[n] > 0 THEN s[n] ELSE 0])

TotalDemand(s) == Sum([n \in 1..Len(s) |-> IF s[n] < 0 THEN -1 * s[n] ELSE 0])

MaxFlowValue(a, s) == Max({FlowValue(a, s, f) : f \in FeasibleFlows(a, s)})

\* a network of maximum flow value v cannot route all its supply and demand
Unroutable(s, v) == v < TotalSupply(s) \/ v < TotalDemand(s)

\* the network in smcf is that of the last finished tier
LastSolved == pc \in {"build", "done"} /\ Finished > 0

\* ----------------------------------------------------------------- claims
\* C1: no course is assigned more TAs, over all tiers together, than its
\* original slot count, and its remaining slots never go below zero.
C1_NoOverAllocation ==
    \A c \in Courses :
        /\ Cardinality(LinesOfCourse(c)) <= At(config.spots, c)
        /\ At(spots, c) >= 0

\* C1 witness: a course filled to its last slot by two different tiers
C1_Witness ==
    \E c \in Courses :
        /\ At(spots, c) = 0
        /\ \E i, j \in LinesOfCourse(c) : assigned[i].tier # assigned[j].tier

\* C2: a TA is assigned to a course only if the combined cost of that pair
\* is below the threshold.
C2_OnlyWillingPairs ==
    \A i \in 1..Len(assigned) :
        PairCost(assigned[i].tier, assigned[i].ta, assigned[i].course) < Threshold

\* C3: no TA receives more assignments in its tier than its declared
\* availability, and the remaining-availability counters stay >= 0.
C3_WithinAvailability ==
    /\ \A t \in 1..Finished : \A ta \in 0..(NumTAs(config)[t] - 1) :
          Cardinality(LinesOfTA(t, ta)) <= Declared(t, ta)
    /\ \A i \in 1..Len(avail) : avail[i] >= 0

\* C3 witness: a TA of availability 2 used up by two assignments
C3_Witness ==
    \E t \in 1..Finished : \E ta \in 0..(NumTAs(config)[t] - 1) :
        /\ Declared(t, ta) = 2
        /\ Cardinality(LinesOfTA(t, ta)) = 2

\* C4: the demand a tier's network is built with is the course's original
\* slot count minus the assignments of the earlier tiers, and the slots
\* printed after each tier never grow.
C4_DemandIsResidual ==
    /\ supply # << >> =>
          \A c \in Courses :
              supply[NumTAs(config)[NetTier] + c + 1]
                  = -1 * (At(config.spots, c) - Cardinality(LinesBefore(NetTier, c)))
    /\ \A j \in 1..Len(remaining) : \A c \in Courses :
          At(remaining[j], c) <= At(SlotsBefore(j), c)

\* C4 witness: the second tier's network built with 1 slot left of 2
C4_Witness ==
    /\ pc = "solve"
    /\ tier = 2
    /\ NumTAs(config)[2] > 0
    /\ \E c \in Courses :
          /\ At(config.spots, c) = 2
          /\ supply[NumTAs(config)[2] + c + 1] = -1

\* C5: a tier whose status is not OPTIMAL records no assignment, leaves the
\* slots as they were, and the run goes on with the next tier at the offset
\* past the failed tier.
C5_FailedTierIsSkipped ==
    \A j \in 1..Finished :
        status[j] # "OPTIMAL" =>
            /\ LinesOfTier(j) = {}
            /\ remaining[j] = SlotsBefore(j)
            /\ IF j = Finished
               THEN /\ iStart = TierStart(j + 1)
                    /\ spots = SlotsBefore(j)
                    /\ IF j < NumTiers
                       THEN tier = j + 1 /\ pc \in {"build", "solve", "IndexError"}
                       ELSE pc = "done"
               ELSE TRUE

\* C5 witness: the first tier failed and the second still assigned a TA
C5_Witness ==
    /\ Finished >= 2
    /\ status[1] # "OPTIMAL"
    /\ status[2] = "OPTIMAL"
    /\ LinesOfTier(2) # {}

BadConfig(cfg) ==
    \/ \E i \in 1..Len(cfg.spots) : cfg.spots[i] < 0
    \/ \E i \in 1..Len(cfg.avail) : cfg.avail[i] < 0
    \/ Len(cfg.studentPrefs) # TotTAs(cfg) * cfg.numClasses
    \/ Len(cfg.coursePrefs) # TotTAs(cfg) * cfg.numClasses

\* C7: with such a configuration no assignment is recorded and no slot
\* count changes.
C7_BadConfigChangesNothing ==
    BadConfig(config) => (assigned = << >> /\ spots = config.spots)

\* C8: every arc carries the combined cost of its own pair, there is an arc
\* for every pair of cost below the threshold, and no lookup of the build
\* leaves the tier's slice.
C8_ArcCostIsPairCost ==
    /\ pc # "IndexError"
    /\ pc = "solve" =>
          LET nGroup == NumTAs(config)[tier]
          IN  /\ \A i \in 1..Len(arcs) :
                    arcs[i].unit_cost
                        = PairCost(tier, arcs[i].tail, arcs[i].head - nGroup)
              /\ \A ta \in 0..(nGroup - 1) : \A c \in Courses :
                    PairCost(tier, ta, c) < Threshold =>
                        \E i \in 1..Len(arcs) :
                            arcs[i].tail = ta /\ arcs[i].head = c + nGroup

\* C9: after an OPTIMAL tier the TAs reported with unused capacity are those
\* with fewer assignments than declared availability, each with the amount
\* that remains.
C9_ReportsRemaining ==
    \A t \in 1..Finished :
        status[t] = "OPTIMAL" =>
            \A ta \in 0..(NumTAs(config)[t] - 1) :
                LET left == Declared(t, ta) - Cardinality(LinesOfTA(t, ta))
                    lines == {i \in 1..Len(capacity) :
                                 capacity[i].tier = t /\ capacity[i].ta = ta}
                IN  /\ (lines # {}) <=> (left > 0)
                    /\ \A i \in lines : capacity[i].amount = left

\* C10: in a tier the network holds at most one arc per (TA, course) pair,
\* no arc carries more than one unit of flow, so no pair is assigned twice,
\* and every assignment takes exactly one slot of its course.
C10_OneAssignmentPerPair ==
    /\ \A i, j \in 1..Len(arcs) :
          (arcs[i].tail = arcs[j].tail /\ arcs[i].head = arcs[j].head) => i = j
    /\ \A i \in 1..Len(flow) : flow[i] \in {0, 1}
    /\ \A i, j \in 1..Len(assigned) :
          ( /\ assigned[i].tier = assigned[j].tier
            /\ assigned[i].ta = assigned[j].ta
            /\ assigned[i].course = assigned[j].course ) => i = j
    /\ \A c \in Courses :
          At(config.spots, c) - At(spots, c) = Cardinality(LinesOfCourse(c))

\* C10 witness: a TA of availability 2 assigned to two different courses
C10_Witness ==
    \E i, j \in 1..Len(assigned) :
        /\ assigned[i].tier = assigned[j].tier
        /\ assigned[i].ta = assigned[j].ta
        /\ assigned[i].course # assigned[j].course
        /\ Declared(assigned[i].tier, assigned[i].ta) = 2

====
